---- MODULE Spec2Model ----
(***************************************************************************)
(* Model of convert.py and generate_index.py: the Obsidian Markdown ->     *)
(* static HTML converter.  Text is a sequence of one-character strings.    *)
(* The model covers strip_frontmatter, parse_sections, md_to_html (the     *)
(* python-markdown call is an external library: its output is a            *)
(* nondeterministic choice), the HtmlBuilder class, the node loop of       *)
(* convert(), the toggle script of build_page, load_config, the batch      *)
(* loop of __main__ and the listing of generate_index.                     *)
(***************************************************************************)
EXTENDS Integers, Sequences, FiniteSets, TLC

VARIABLES
    config,     \* the configuration handed to convert()
    content,    \* the text read from the input file
    body,       \* strip_frontmatter(content)
    nodes,      \* parse_sections(body)
    pos,        \* index in nodes of the next node of convert()'s loop
    pc,         \* position in convert(), or in the client of HtmlBuilder
    builder,    \* the HtmlBuilder object
    fed,        \* history: the nodes the builder has consumed so far
    dom,        \* the <details> elements of the page open in a browser
    batch       \* the command-line run: config file, inputs, loop, outputs

vars == <<config, content, body, nodes, pos, pc, builder, fed, dom, batch>>

\* ------------------------------------------------------------------ bounds
\* Heading levels fed directly to the builder range over 1..MaxLevel.
MaxLevel == 4
\* Number of nodes fed directly to the builder.
MaxNodes == 3
\* Number of lines of the generated frontmatter documents.
MaxFmLines == 3
\* Number of lines of the generated heading documents.
MaxHeadLines == 2

\* ------------------------------------------------------- text primitives
NL == "\n"
Whitespace == {" ", NL, "\t"}

\* str.strip(): drop leading and trailing whitespace.
RECURSIVE LStrip(_)
LStrip(s) ==
    IF s # <<>> /\ Head(s) \in Whitespace THEN LStrip(Tail(s)) ELSE s

RECURSIVE RStrip(_)
RStrip(s) ==
    IF s # <<>> /\ s[Len(s)] \in Whitespace
    THEN RStrip(SubSeq(s, 1, Len(s) - 1))
    ELSE s

Strip(s) == RStrip(LStrip(s))

\* A sequence of n copies of x.
Repeat(x, n) == [i \in 1..n |-> x]

\* content[k:], k a 0-based index.
SliceFrom(s, k) == SubSeq(s, k + 1, Len(s))

\* str.startswith
StartsWith(s, p) == Len(s) >= Len(p) /\ SubSeq(s, 1, Len(p)) = p

\* str.find(sub, start): the lowest 0-based index >= start where sub occurs,
\* or -1.
Find(s, sub, start) ==
    LET hits == {i \in start..(Len(s) - Len(sub)) :
                    SubSeq(s, i + 1, i + Len(sub)) = sub}
    IN  IF hits = {} THEN -1
        ELSE CHOOSE i \in hits : \A j \in hits : i <= j

\* str.lstrip("\n")
RECURSIVE LStripNewlines(_)
LStripNewlines(s) ==
    IF s # <<>> /\ Head(s) = NL THEN LStripNewlines(Tail(s)) ELSE s

\* ----------------------------------------------------- strip_frontmatter
Delimiter == <<"-", "-", "-">>

\* content.find("\n---", 3)
FindClosing(s, start) == Find(s, <<NL>> \o Delimiter, start)

strip_frontmatter(c) ==
    IF ~StartsWith(c, Delimiter)
    THEN c
    ELSE LET end == FindClosing(c, 3)
         IN  IF end = -1 THEN c ELSE LStripNewlines(SliceFrom(c, end + 4))

\* --------------------------------------------------------- parse_sections
\* {1,6} in heading_pattern
MaxMarkers == 6

\* Number of consecutive characters of the set cs found in s from index p.
RECURSIVE Run(_, _, _)
Run(s, p, cs) ==
    IF p <= Len(s) /\ s[p] \in cs THEN 1 + Run(s, p + 1, cs) ELSE 0

\* Index of the last character of the line that holds index p.
RECURSIVE LineEnd(_, _)
LineEnd(s, p) ==
    IF p < Len(s) /\ s[p + 1] # NL THEN LineEnd(s, p + 1) ELSE p

\* "^" under re.MULTILINE
IsLineStart(s, p) == p = 1 \/ s[p - 1] = NL

\* The characters "\s" may consume between the markers and the text.
Separators == Whitespace

\* heading_pattern matched at index p: #{1,6} takes the whole run of
\* markers, \s+ backtracks to the longest run of whitespace still followed by
\* a character "." accepts, and .+$ runs to the end of that line.
MatchAt(s, p) ==
    LET k == Run(s, p, {"#"})
        w == Run(s, p + k, Separators)
        js == {j \in 1..w : p + k + j <= Len(s) /\ s[p + k + j] # NL}
        j == CHOOSE x \in js : \A y \in js : y <= x
        start == p + k + j
    IN  IF IsLineStart(s, p) /\ k >= 1 /\ k <= MaxMarkers /\ js # {}
        THEN [ok |-> TRUE, level |-> k,
              text |-> SubSeq(s, start, LineEnd(s, start)),
              end |-> LineEnd(s, start)]
        ELSE [ok |-> FALSE, level |-> 0, text |-> <<>>, end |-> 0]

\* ------------------------------------------------------------ md_to_html
\* The HTML python-markdown may produce for a non-blank block, already cut
\* into lines (html.splitlines()).  The library is external: any of these
\* shapes, the empty string included, is a possible result.
Paragraph(text) == <<"<", "p", ">">> \o SelectSeq(Strip(text), LAMBDA c : c # NL)

Renderings(text) ==
    { <<>>,
      << Paragraph(text) >>,
      << Paragraph(text), <<>>, <<" ">>, <<"<", "h", "r", ">">> >> }

\* md_to_html: whitespace-only text renders to the empty string.
md_to_html(text) ==
    IF Strip(text) = <<>> THEN { <<>> } ELSE Renderings(text)

\* ------------------------------------------------------------ HtmlBuilder
\* One line of HtmlBuilder.lines, kept structured: pad is the number of
\* two-space indentation units in front of the markup.
Line(kind, padN, level, open, text) ==
    [kind |-> kind, pad |-> padN, level |-> level, open |-> open, text |-> text]

\* "</details>"
CloseLine == Line("close", 0, 0, FALSE, <<>>)
\* f'{pad}<details class="niveau{level}"{open_attr}>'
DetailsLine(padN, level, open) == Line("details", padN, level, open, <<>>)
\* f'{pad}  <summary class="summary-h{level}">{text}</summary>'
SummaryLine(padN, level, text) == Line("summary", padN + 1, level, FALSE, text)
\* f'{pad}<h{level}>{text}</h{level}>'
PlainLine(padN, level, text) == Line("h", padN, level, FALSE, text)
\* add_content indenting every line, blank ones included.
ContentLinePadBlank(padN, line) == Line("content", padN, 0, FALSE, line)

\* pad + line  if line.strip() else ""
ContentLine(padN, line) ==
    IF Strip(line) # <<>>
    THEN Line("content", padN, 0, FALSE, line)
    ELSE Line("content", 0, 0, FALSE, <<>>)

\* HtmlBuilder.__init__
NewBuilder(collapsible_levels, open_by_default) ==
    [collapsible_levels |-> collapsible_levels,
     open_by_default |-> open_by_default,
     lines |-> <<>>,
     stack |-> <<>>]

\* A strict comparison in the loop test of _close_until.
MustCloseStrict(top, level) == top > level

\* The loop test of _close_until.
MustClose(top, level) == top >= level

\* HtmlBuilder._close_until
RECURSIVE close_until(_, _)
close_until(b, level) ==
    IF b.stack # <<>> /\ MustClose(b.stack[Len(b.stack)], level)
    THEN close_until([b EXCEPT !.lines = Append(@, CloseLine),
                               !.stack = SubSeq(@, 1, Len(@) - 1)], level)
    ELSE b

\* HtmlBuilder._pad
pad(b, extra) == Len(b.stack) + extra

\* add_heading pushing every heading, collapsible or not.
EmitHeadingAlwaysPush(b, level, text) ==
    IF level \in b.collapsible_levels
    THEN [b EXCEPT
            !.lines = @ \o << DetailsLine(pad(b, 0), level,
                                          level \in b.open_by_default),
                              SummaryLine(pad(b, 0), level, text) >>,
            !.stack = Append(@, level)]
    ELSE [b EXCEPT !.lines = Append(@, PlainLine(pad(b, 0), level, text)),
                   !.stack = Append(@, level)]

\* The branch of add_heading taken once the deeper containers are closed.
EmitHeading(b, level, text) ==
    IF level \in b.collapsible_levels
    THEN [b EXCEPT
            !.lines = @ \o << DetailsLine(pad(b, 0), level,
                                          level \in b.open_by_default),
                              SummaryLine(pad(b, 0), level, text) >>,
            !.stack = Append(@, level)]
    ELSE [b EXCEPT !.lines = Append(@, PlainLine(pad(b, 0), level, text))]

\* add_heading closing deeper containers only for collapsible headings.
add_heading_keep_open(b, level, text) ==
    IF level \in b.collapsible_levels
    THEN EmitHeading(close_until(b, level), level, text)
    ELSE EmitHeading(b, level, text)

\* HtmlBuilder.add_heading
add_heading(b, level, text) == EmitHeading(close_until(b, level), level, text)

\* HtmlBuilder.add_content, for one result html of md_to_html(text).
add_content(b, html) ==
    IF html = <<>>
    THEN b
    ELSE [b EXCEPT !.lines =
            @ \o [i \in 1..Len(html) |-> ContentLine(pad(b, 1), html[i])]]

\* close_all with "if" in place of "while": only the innermost container.
close_all_once(b) ==
    IF b.stack # <<>>
    THEN [b EXCEPT !.lines = Append(@, CloseLine),
                   !.stack = SubSeq(@, 1, Len(@) - 1)]
    ELSE b

\* HtmlBuilder.close_all
RECURSIVE close_all(_)
close_all(b) ==
    IF b.stack # <<>>
    THEN close_all([b EXCEPT !.lines = Append(@, CloseLine),
                             !.stack = SubSeq(@, 1, Len(@) - 1)])
    ELSE b

\* ------------------------------------------------------------------ nodes
HeadingNode(level, text) == [type |-> "heading", level |-> level, text |-> text]
ContentNode(text) == [type |-> "content", level |-> 0, text |-> text]

\* parse_sections storing the trimmed span in Content nodes.
RECURSIVE ParseFromTrimmed(_, _)
ParseFromTrimmed(s, last) ==
    LET starts == {p \in last..Len(s) : MatchAt(s, p).ok}
    IN  IF starts = {}
        THEN LET remainder == SubSeq(s, last, Len(s))
             IN  IF Strip(remainder) # <<>>
                 THEN << ContentNode(Strip(remainder)) >>
                 ELSE <<>>
        ELSE LET p == CHOOSE x \in starts : \A y \in starts : x <= y
                 m == MatchAt(s, p)
                 before == SubSeq(s, last, p - 1)
             IN  (IF Strip(before) # <<>>
                  THEN << ContentNode(Strip(before)) >>
                  ELSE <<>>)
                 \o << HeadingNode(m.level, Strip(m.text)) >>
                 \o ParseFromTrimmed(s, m.end + 1)

\* parse_sections without the remainder after the last heading.
RECURSIVE ParseFromNoRemainder(_, _)
ParseFromNoRemainder(s, last) ==
    LET starts == {p \in last..Len(s) : MatchAt(s, p).ok}
    IN  IF starts = {}
        THEN <<>>
        ELSE LET p == CHOOSE x \in starts : \A y \in starts : x <= y
                 m == MatchAt(s, p)
                 before == SubSeq(s, last, p - 1)
             IN  (IF Strip(before) # <<>>
                  THEN << ContentNode(before) >>
                  ELSE <<>>)
                 \o << HeadingNode(m.level, Strip(m.text)) >>
                 \o ParseFromNoRemainder(s, m.end + 1)

\* The loop of parse_sections from last_pos (here the 1-based index of the
\* first character not yet consumed), then the remainder.
RECURSIVE ParseFrom(_, _)
ParseFrom(s, last) ==
    LET starts == {p \in last..Len(s) : MatchAt(s, p).ok}
    IN  IF starts = {}
        THEN LET remainder == SubSeq(s, last, Len(s))
             IN  IF Strip(remainder) # <<>>
                 THEN << ContentNode(remainder) >>
                 ELSE <<>>
        ELSE LET p == CHOOSE x \in starts : \A y \in starts : x <= y
                 m == MatchAt(s, p)
                 before == SubSeq(s, last, p - 1)
             IN  (IF Strip(before) # <<>>
                  THEN << ContentNode(before) >>
                  ELSE <<>>)
                 \o << HeadingNode(m.level, Strip(m.text)) >>
                 \o ParseFrom(s, m.end + 1)

parse_sections(c) == ParseFrom(c, 1)

\* ------------------------------------------------- values of idle parts
\* No page is open in a browser.
NoPage == [open |-> <<>>, last |-> "none"]
\* No command-line run is under way.
NoBatch == [pc |-> "none", outputs |-> <<>>, index |-> <<>>]

\* ------------------------------------------- the builder driven directly
Levels == 1..MaxLevel
HeadingTexts == { <<"T">> }
ContentTexts == { <<" ">>, <<"x">> }
OpenChoices == { {}, {2} }

Config(collapsible_levels, open_by_default) ==
    [collapsible_levels |-> collapsible_levels,
     open_by_default |-> open_by_default]

InitBuilder ==
    /\ \E coll \in SUBSET Levels, obd \in OpenChoices :
           config = Config(coll, obd)
    /\ content = <<>>
    /\ body = <<>>
    /\ nodes = <<>>
    /\ pos = 1
    /\ pc = "build"
    /\ builder = NewBuilder(config.collapsible_levels, config.open_by_default)
    /\ fed = <<>>
    /\ dom = NoPage
    /\ batch = NoBatch

\* builder.add_heading(level, text) called by a client of the class.
AddHeading ==
    /\ pc = "build"
    /\ Len(fed) < MaxNodes
    /\ \E level \in Levels, text \in HeadingTexts :
          /\ builder' = add_heading(builder, level, text)
          /\ fed' = Append(fed, HeadingNode(level, text))
    /\ UNCHANGED <<dom, batch, config, content, body, nodes, pos, pc>>

\* builder.add_content(text) called by a client of the class.
AddContent ==
    /\ pc = "build"
    /\ Len(fed) < MaxNodes
    /\ \E text \in ContentTexts :
          /\ \E html \in md_to_html(text) : builder' = add_content(builder, html)
          /\ fed' = Append(fed, ContentNode(text))
    /\ UNCHANGED <<dom, batch, config, content, body, nodes, pos, pc>>

\* builder.close_all() at the end of the document.
CloseAll ==
    /\ pc = "build"
    /\ builder' = close_all(builder)
    /\ pc' = "closed"
    /\ UNCHANGED <<dom, batch, config, content, body, nodes, pos, fed>>

NextBuilder == AddHeading \/ AddContent \/ CloseAll

SpecBuilder == InitBuilder /\ [][NextBuilder]_vars

\* ------------------------------------------------------- input documents
\* Lines joined by newlines.
RECURSIVE Join(_)
Join(ls) ==
    IF ls = <<>> THEN <<>>
    ELSE IF Len(ls) = 1 THEN ls[1]
    ELSE ls[1] \o <<NL>> \o Join(Tail(ls))

\* All sequences of 1..n elements of S.
SeqsUpTo(S, n) == UNION {[1..k -> S] : k \in 1..n}

FmLines ==
    { Delimiter, Delimiter \o <<"a">>, <<"a">>, <<>>, <<"#", " ", "b">> }

HeadLines ==
    { <<"#">>, <<"#", " ", "a">>, <<"#", "#", " ", "b", " ">>,
      <<"#", "#", "#", "#", "#", "#", "#", " ", "a">>, <<"#", "a">>,
      <<"#", " ", " ">>, <<" ", "#", " ", "a">>, <<"a">>, <<>> }

\* "# Title\n\n## A\ntext1\n\n## B\ntext2\n"
ScenarioDoc ==
    Join(<< <<"#", " ", "T", "i", "t", "l", "e">>, <<>>,
            <<"#", "#", " ", "A">>, <<"t", "e", "x", "t", "1">>, <<>>,
            <<"#", "#", " ", "B">>, <<"t", "e", "x", "t", "2">>, <<>> >>)

Documents ==
    {Join(ls) : ls \in SeqsUpTo(FmLines, MaxFmLines)}
        \cup {Join(ls) : ls \in SeqsUpTo(HeadLines, MaxHeadLines)}
        \cup {ScenarioDoc}

\* collapsible_levels / open_by_default of the configurations tried;
\* [2, 3] and [] are the defaults.
CollapsibleChoices == { {2, 3}, {2}, {1, 2}, {} }

\* ------------------------------------------------------------- convert()
Init ==
    /\ \E coll \in CollapsibleChoices, obd \in OpenChoices :
           config = Config(coll, obd)
    /\ content \in Documents
    /\ body = <<>>
    /\ nodes = <<>>
    /\ pos = 1
    /\ pc = "read"
    /\ builder = NewBuilder(config.collapsible_levels, config.open_by_default)
    /\ fed = <<>>
    /\ dom = NoPage
    /\ batch = NoBatch

\* body = strip_frontmatter(content)
StripFrontmatter ==
    /\ pc = "read"
    /\ body' = strip_frontmatter(content)
    /\ pc' = "stripped"
    /\ UNCHANGED <<dom, batch, config, content, nodes, pos, builder, fed>>

\* nodes = parse_sections(body); builder = HtmlBuilder(...)
ParseSections ==
    /\ pc = "stripped"
    /\ nodes' = parse_sections(body)
    /\ builder' = NewBuilder(config.collapsible_levels, config.open_by_default)
    /\ pos' = 1
    /\ pc' = "build"
    /\ UNCHANGED <<dom, batch, config, content, body, fed>>

\* One turn of "for node in nodes" on a heading node.
FeedHeading ==
    /\ pc = "build"
    /\ pos <= Len(nodes)
    /\ nodes[pos].type = "heading"
    /\ builder' = add_heading(builder, nodes[pos].level, nodes[pos].text)
    /\ fed' = Append(fed, nodes[pos])
    /\ pos' = pos + 1
    /\ UNCHANGED <<dom, batch, config, content, body, nodes, pc>>

\* One turn of "for node in nodes" on a content node.
FeedContent ==
    /\ pc = "build"
    /\ pos <= Len(nodes)
    /\ nodes[pos].type # "heading"
    /\ \E html \in md_to_html(nodes[pos].text) :
           builder' = add_content(builder, html)
    /\ fed' = Append(fed, nodes[pos])
    /\ pos' = pos + 1
    /\ UNCHANGED <<dom, batch, config, content, body, nodes, pc>>

\* builder.close_all() after the loop.
Finish ==
    /\ pc = "build"
    /\ pos > Len(nodes)
    /\ builder' = close_all(builder)
    /\ pc' = "closed"
    /\ UNCHANGED <<dom, batch, config, content, body, nodes, pos, fed>>

\* build_page(... builder.get_html() ...) and the write of the page.
WritePage ==
    /\ pc = "closed"
    /\ pc' = "written"
    /\ UNCHANGED <<dom, batch, config, content, body, nodes, pos, builder, fed>>

\* The "open" attributes of the <details> elements of the body, in
\* document order: what document.querySelectorAll('details') finds.
DetailsOf(ls) ==
    LET ds == SelectSeq(ls, LAMBDA l : l.kind = "details")
    IN  [i \in DOMAIN ds |-> ds[i].open]

\* A click handler that flips each element on its own.
toggle_each(open) == [i \in DOMAIN open |-> ~open[i]]

\* The click handler of btn-toggle-all in the script of build_page.
toggle_all(open) ==
    LET anyOpen == \E i \in DOMAIN open : open[i]
    IN  [i \in DOMAIN open |-> ~anyOpen]

\* The written page is opened in a browser.
LoadPage ==
    /\ pc = "written"
    /\ pc' = "viewing"
    /\ dom' = [open |-> DetailsOf(builder.lines), last |-> "load"]
    /\ UNCHANGED <<batch, config, content, body, nodes, pos, builder, fed>>

\* The reader opens or closes one <details> element.
ToggleOne ==
    /\ pc = "viewing"
    /\ \E i \in DOMAIN dom.open :
          dom' = [open |-> [dom.open EXCEPT ![i] = ~@], last |-> "one"]
    /\ UNCHANGED <<batch, config, content, body, nodes, pos, pc, builder, fed>>

\* The reader clicks btn-toggle-all.
ToggleAll ==
    /\ pc = "viewing"
    /\ dom' = [open |-> toggle_all(dom.open), last |-> "all"]
    /\ UNCHANGED <<batch, config, content, body, nodes, pos, pc, builder, fed>>

Next ==
    \/ StripFrontmatter
    \/ ParseSections
    \/ FeedHeading
    \/ FeedContent
    \/ Finish
    \/ WritePage
    \/ LoadPage
    \/ ToggleOne
    \/ ToggleAll

Spec == Init /\ [][Next]_vars

\* ============================================================ the batch run
\* Number of input paths on the command line.
MaxInputs == 2

\* ------------------------------------------------------------ load_config
DEFAULT_CONFIG ==
    [collapsible_levels |-> {2, 3},
     css_file |-> "style.css",
     open_by_default |-> {},
     lang |-> "fr"]

\* dict.update
DictUpdate(d, u) ==
    [k \in DOMAIN d \cup DOMAIN u |-> IF k \in DOMAIN u THEN u[k] ELSE d[k]]

\* What --config may point to: no file, a file that is not JSON, a JSON
\* value that is not an object, or a JSON object with some of the keys.
ConfigFiles ==
    { [kind |-> "missing", data |-> <<>>],
      [kind |-> "invalid", data |-> <<>>],
      [kind |-> "notdict", data |-> <<>>],
      [kind |-> "valid", data |-> <<>>],
      [kind |-> "valid", data |-> [lang |-> "en"]],
      [kind |-> "valid",
       data |-> [collapsible_levels |-> {2}, css_file |-> "x.css"]] }

\* load_config: json.load raises on a file that is not JSON, and
\* config.update raises on a value that is not a mapping; neither is caught.
load_config(file) ==
    IF file.kind = "missing"
    THEN [raised |-> FALSE, config |-> DEFAULT_CONFIG]
    ELSE IF file.kind \in {"invalid", "notdict"}
    THEN [raised |-> TRUE, config |-> DEFAULT_CONFIG]
    ELSE [raised |-> FALSE, config |-> DictUpdate(DEFAULT_CONFIG, file.data)]

\* ------------------------------------------------------------------ paths
UpperCase ==
    << "A", "B", "C", "D", "E", "F", "G", "H", "I", "J", "K", "L", "M",
       "N", "O", "P", "Q", "R", "S", "T", "U", "V", "W", "X", "Y", "Z" >>
LowerCase ==
    << "a", "b", "c", "d", "e", "f", "g", "h", "i", "j", "k", "l", "m",
       "n", "o", "p", "q", "r", "s", "t", "u", "v", "w", "x", "y", "z" >>

\* str.lower()
Lower(t) ==
    [i \in DOMAIN t |->
        IF \E k \in DOMAIN UpperCase : UpperCase[k] = t[i]
        THEN LowerCase[CHOOSE k \in DOMAIN UpperCase : UpperCase[k] = t[i]]
        ELSE t[i]]

\* The 0-based index of the last "." of a name, or -1 (str.rfind).
LastDot(name) ==
    LET dots == {i \in DOMAIN name : name[i] = "."}
    IN  IF dots = {} THEN -1
        ELSE (CHOOSE i \in dots : \A j \in dots : j <= i) - 1

\* Path.stem and Path.suffix: the name is cut at its last dot unless that
\* dot is its first or last character.
HasSuffix(name) == 0 < LastDot(name) /\ LastDot(name) < Len(name) - 1
PathStem(name) == IF HasSuffix(name) THEN SubSeq(name, 1, LastDot(name)) ELSE name
PathSuffix(name) == IF HasSuffix(name) THEN SliceFrom(name, LastDot(name)) ELSE <<>>

\* str.replace(old, new) for one-character old and new.
Replace(t, old, new) == [i \in DOMAIN t |-> IF t[i] = old THEN new ELSE t[i]]

\* A title derivation that forgets the underscores.
derive_title_hyphens_only(stem) == Replace(stem, "-", " ")

\* stem.replace("-", " ").replace("_", " ")
derive_title(stem) == Replace(Replace(stem, "-", " "), "_", " ")

DotMd == <<".", "m", "d">>
DotHtml == <<".", "h", "t", "m", "l">>
IndexHtml == <<"i", "n", "d", "e", "x">> \o DotHtml

\* ---------------------------------------------------------------- convert
\* convert() seen from the batch loop: None for a missing file, an exception
\* out of the renderer or out of the write (neither is caught), or the
\* path of the page written.
convert(f) ==
    IF ~f.exists
    THEN [kind |-> "none", name |-> <<>>, title |-> <<>>]
    ELSE IF f.fault # "none"
    THEN [kind |-> "raised", name |-> <<>>, title |-> <<>>]
    ELSE [kind |-> "ok",
          name |-> PathStem(f.name) \o DotHtml,
          title |-> derive_title(PathStem(f.name))]

\* One turn of the loop counting every file handed to convert().
loop_turn_count_all(b) ==
    LET f == b.inputs[b.i]
        result == convert(f)
    IN  IF Lower(PathSuffix(f.name)) # DotMd
        THEN [b EXCEPT !.i = @ + 1]
        ELSE IF result.kind = "raised"
        THEN [b EXCEPT !.pc = "crashed", !.failed_at = "convert", !.exit = 1]
        ELSE [b EXCEPT
                !.i = @ + 1,
                !.converted = @ + 1,
                !.outputs = IF result.kind = "ok"
                            THEN Append(@, [src |-> b.i, name |-> result.name,
                                            title |-> result.title])
                            ELSE @]

\* One turn of "for filepath in sorted(matches)" in __main__, for a literal
\* path (glob.glob of a literal is the path itself, or nothing and then the
\* path is tried all the same).
loop_turn(b) ==
    LET f == b.inputs[b.i]
        result == convert(f)
    IN  IF Lower(PathSuffix(f.name)) # DotMd
        THEN [b EXCEPT !.i = @ + 1]
        ELSE IF result.kind = "raised"
        THEN [b EXCEPT !.pc = "crashed", !.failed_at = "convert", !.exit = 1]
        ELSE IF result.kind = "ok"
        THEN [b EXCEPT
                !.i = @ + 1,
                !.converted = @ + 1,
                !.outputs = Append(@, [src |-> b.i, name |-> result.name,
                                       title |-> result.title])]
        ELSE [b EXCEPT !.i = @ + 1]

\* --------------------------------------------------------- generate_index
\* The characters of file names, in code point order.
CodePoints ==
    << "-", ".", "0", "1", "2", "3", "4", "5", "6", "7", "8", "9", "A",
       "B", "C", "D", "E", "F", "G", "H", "I", "J", "K", "L", "M", "N",
       "O", "P", "Q", "R", "S", "T", "U", "V", "W", "X", "Y", "Z", "_",
       "a", "b", "c", "d", "e", "f", "g", "h", "i", "j", "k", "l", "m",
       "n", "o", "p", "q", "r", "s", "t", "u", "v", "w", "x", "y", "z" >>

Rank(c) == CHOOSE k \in DOMAIN CodePoints : CodePoints[k] = c

\* a < b for two names, as sorted() compares them.
RECURSIVE NameLess(_, _)
NameLess(a, b) ==
    IF b = <<>> THEN FALSE
    ELSE IF a = <<>> THEN TRUE
    ELSE IF Head(a) # Head(b) THEN Rank(Head(a)) < Rank(Head(b))
    ELSE NameLess(Tail(a), Tail(b))

\* sorted(S)
RECURSIVE Sorted(_)
Sorted(S) ==
    IF S = {} THEN <<>>
    ELSE LET m == CHOOSE x \in S : \A y \in S \ {x} : NameLess(x, y)
         IN  << m >> \o Sorted(S \ {m})

\* The list items of generate_index for a directory holding the files
\* names: every name but index.html, sorted, with its display name.
generate_index(names) ==
    LET html_files == Sorted({n \in names : Lower(n) # IndexHtml})
    IN  [i \in DOMAIN html_files |->
            [href |-> html_files[i],
             display_name |-> derive_title(PathStem(html_files[i]))]]

\* ------------------------------------------------------------- __main__
FileNames ==
    { <<"m", "y", "_", "d", "o", "c", "-", "n", "a", "m", "e", ".", "m", "d">>,
      <<"a", "-", "-", "b", ".", "M", "D">>,
      <<"n", "_", ".", "t", "x", "t">>,
      <<"i", "n", "d", "e", "x", ".", "m", "d">> }

\* An input path: its name, whether the file exists, and the call that
\* fails while it is converted, if any.
Files ==
    {[name |-> n, exists |-> TRUE, fault |-> x] :
        n \in FileNames, x \in {"none", "render", "write"}}
    \cup {[name |-> n, exists |-> FALSE, fault |-> "none"] : n \in FileNames}

InitBatch ==
    /\ config = Config({2, 3}, {})
    /\ content = <<>>
    /\ body = <<>>
    /\ nodes = <<>>
    /\ pos = 1
    /\ pc = "batch"
    /\ builder = NewBuilder({2, 3}, {})
    /\ fed = <<>>
    /\ dom = NoPage
    /\ \E file \in ConfigFiles, inputs \in SeqsUpTo(Files, MaxInputs) :
          batch = [pc |-> "start", cfgfile |-> file, cfg |-> DEFAULT_CONFIG,
                   inputs |-> inputs, i |-> 1, converted |-> 0,
                   outputs |-> <<>>, reported |-> -1, exit |-> -1,
                   failed_at |-> "none", index |-> <<>>]

\* cfg = load_config(args.config); converted = 0
LoadConfig ==
    /\ batch.pc = "start"
    /\ LET r == load_config(batch.cfgfile)
       IN  batch' = IF r.raised
                    THEN [batch EXCEPT !.pc = "crashed",
                                       !.failed_at = "config", !.exit = 1]
                    ELSE [batch EXCEPT !.pc = "loop", !.cfg = r.config]
    /\ UNCHANGED <<config, content, body, nodes, pos, pc, builder, fed, dom>>

\* One input path of the loop.
ConvertNext ==
    /\ batch.pc = "loop"
    /\ batch.i <= Len(batch.inputs)
    /\ batch' = loop_turn(batch)
    /\ UNCHANGED <<config, content, body, nodes, pos, pc, builder, fed, dom>>

\* print the count; the script ends and the process exits with status 0.
Report ==
    /\ batch.pc = "loop"
    /\ batch.i > Len(batch.inputs)
    /\ batch' = [batch EXCEPT !.pc = "done", !.reported = batch.converted,
                              !.exit = 0]
    /\ UNCHANGED <<config, content, body, nodes, pos, pc, builder, fed, dom>>

\* generate_index.py run on the output directory afterwards.
GenerateIndex ==
    /\ batch.pc = "done"
    /\ batch' = [batch EXCEPT
                   !.pc = "indexed",
                   !.index = generate_index(
                       {batch.outputs[k].name : k \in DOMAIN batch.outputs})]
    /\ UNCHANGED <<config, content, body, nodes, pos, pc, builder, fed, dom>>

NextBatch == LoadConfig \/ ConvertNext \/ Report \/ GenerateIndex

SpecBatch == InitBatch /\ [][NextBatch]_vars

\* ------------------------------------------------ properties: the builder
Count(ls, kind) == Cardinality({i \in DOMAIN ls : ls[i].kind = kind})
Prefix(ls, n) == SubSeq(ls, 1, n)
Suffix(ls, n) == SubSeq(ls, n + 1, Len(ls))

\* The kinds of the markup lines (everything but rendered content).
Markup(ls) ==
    LET m == SelectSeq(ls, LAMBDA l : l.kind # "content")
    IN  [i \in DOMAIN m |-> m[i].kind]

\* The levels of the heading nodes among the nodes consumed so far.
HeadingLevels(ns) ==
    LET h == SelectSeq(ns, LAMBDA n : n.type = "heading")
    IN  [i \in DOMAIN h |-> h[i].level]

\* The containers a reader of the line buffer finds open at its end.
RECURSIVE OpenContainers(_)
OpenContainers(ls) ==
    IF ls = <<>> THEN <<>>
    ELSE LET before == OpenContainers(Prefix(ls, Len(ls) - 1))
             last == ls[Len(ls)]
         IN  CASE last.kind = "details" -> Append(before, last.level)
               [] last.kind = "close" /\ before # <<>> ->
                      Prefix(before, Len(before) - 1)
               [] OTHER -> before

\* A step that consumes one heading node.
HeadingStep ==
    /\ Len(fed') = Len(fed) + 1
    /\ fed'[Len(fed')].type = "heading"

\* C1: at every prefix of the line buffer the opening <details> markers are
\* at least as many as the closing ones, and after close_all they are equal.
C1_Balanced ==
    /\ \A n \in 0..Len(builder.lines) :
          Count(Prefix(builder.lines, n), "details")
              >= Count(Prefix(builder.lines, n), "close")
    /\ pc = "closed" =>
          Count(builder.lines, "details") = Count(builder.lines, "close")

C1_Witness ==
    /\ pc = "closed"
    /\ Count(builder.lines, "details") >= 2
    /\ Count(builder.lines, "content") >= 1
    /\ \E i \in DOMAIN builder.lines :
          /\ i + 1 \in DOMAIN builder.lines
          /\ builder.lines[i].kind = "close"
          /\ builder.lines[i + 1].kind = "close"

\* C2: add_heading(level, text) first closes exactly the open containers of
\* level >= level, one closing marker each, from the top of the stack; the
\* containers of level < level stay on the stack, and the closing markers
\* come before anything emitted for the new heading.
C2_ClosesExactlyDeeper ==
    [][HeadingStep =>
        LET level == fed'[Len(fed')].level
            st == builder.stack
            n == Cardinality({i \in DOMAIN st : st[i] >= level})
            keep == Len(st) - n
            old == Len(builder.lines)
        IN  /\ \A i \in 1..keep : st[i] < level
            /\ \A i \in (keep + 1)..Len(st) : st[i] >= level
            /\ Len(builder'.lines) > old + n
            /\ Prefix(builder'.lines, old + n)
                   = builder.lines \o Repeat(CloseLine, n)
            /\ Count(Suffix(builder'.lines, old + n), "close") = 0
            /\ Len(builder'.stack) >= keep
            /\ Prefix(builder'.stack, keep) = Prefix(st, keep)
    ]_vars

C2_Witness ==
    /\ pc = "build"
    /\ \E i \in DOMAIN builder.lines :
          /\ i + 1 \in DOMAIN builder.lines
          /\ builder.lines[i].kind = "close"
          /\ builder.lines[i + 1].kind \in {"details", "h"}
          /\ builder.lines[i + 1].pad >= 1

\* C3: a heading of a collapsible level yields exactly one opening line
\* followed by one summary line and pushes exactly its level; any other
\* heading yields one plain heading line and pushes nothing.
C3_CollapsibleSelection ==
    [][HeadingStep =>
        LET node == fed'[Len(fed')]
            new == Suffix(builder'.lines, Len(builder.lines))
            closed == Count(new, "close")
            kept == Prefix(builder.stack, Len(builder.stack) - closed)
            emitted == Suffix(new, closed)
        IN  IF node.level \in builder.collapsible_levels
            THEN /\ Len(emitted) = 2
                 /\ emitted[1].kind = "details"
                 /\ emitted[1].level = node.level
                 /\ emitted[2].kind = "summary"
                 /\ emitted[2].level = node.level
                 /\ emitted[2].text = node.text
                 /\ builder'.stack = Append(kept, node.level)
            ELSE /\ Len(emitted) = 1
                 /\ emitted[1].kind = "h"
                 /\ emitted[1].level = node.level
                 /\ emitted[1].text = node.text
                 /\ builder'.stack = kept
    ]_vars

C3_Witness ==
    /\ Count(builder.lines, "h") >= 1
    /\ Count(builder.lines, "details") >= 1
    /\ Count(builder.lines, "close") >= 1
    /\ builder.stack # <<>>
    /\ builder.lines[Len(builder.lines)].kind = "h"

\* C5: headings 2, 4, 2 with collapsible set {2,3,4}: after the second the
\* stack is <<2,4>>; the third emits two closing markers before its own
\* opening marker; end-of-document closes exactly one container.
C5_Scenario242 ==
    builder.collapsible_levels = {2, 3, 4} =>
        /\ (HeadingLevels(fed) = <<2, 4>> /\ pc = "build") =>
              /\ builder.stack = <<2, 4>>
              /\ Markup(builder.lines)
                    = <<"details", "summary", "details", "summary">>
        /\ (HeadingLevels(fed) = <<2, 4, 2>> /\ pc = "build") =>
              /\ builder.stack = <<2>>
              /\ Markup(builder.lines)
                    = <<"details", "summary", "details", "summary",
                        "close", "close", "details", "summary">>
        /\ (HeadingLevels(fed) = <<2, 4, 2>> /\ pc = "closed") =>
              /\ builder.stack = <<>>
              /\ Markup(builder.lines)
                    = <<"details", "summary", "details", "summary",
                        "close", "close", "details", "summary", "close">>

C5_Witness ==
    /\ builder.collapsible_levels = {2, 3, 4}
    /\ HeadingLevels(fed) = <<2, 4, 2>>
    /\ pc = "closed"

\* C7: the stack holds exactly the levels of the containers opened and not
\* yet closed, in opening order, and never decreases from bottom to top.
C7_StackIsOpenContainers ==
    /\ builder.stack = OpenContainers(builder.lines)
    /\ \A i \in 1..(Len(builder.stack) - 1) :
          builder.stack[i] <= builder.stack[i + 1]

C7_Witness ==
    /\ Len(builder.stack) >= 2
    /\ Count(builder.lines, "close") >= 1

\* ------------------------------------------------- properties: convert()
\* The lines of a text: the spans between its newline characters.
RECURSIVE SplitLines(_)
SplitLines(s) ==
    LET n == Find(s, <<NL>>, 0)
    IN  IF n = -1 THEN << s >>
        ELSE << SubSeq(s, 1, n) >> \o SplitLines(SliceFrom(s, n + 1))

\* The indexes of the lines after the first that consist solely of the
\* delimiter.
ClosingLines(c) ==
    {i \in 2..Len(SplitLines(c)) : SplitLines(c)[i] = Delimiter}

\* The text begins with a delimiter line and a later line is a delimiter.
WellFormedFrontmatter(c) ==
    /\ SplitLines(c)[1] = Delimiter
    /\ ClosingLines(c) # {}

\* The text strictly after the first closing delimiter line.
AfterClosingLine(c) ==
    LET i == CHOOSE x \in ClosingLines(c) : \A y \in ClosingLines(c) : x <= y
    IN  Join(SubSeq(SplitLines(c), i + 1, Len(SplitLines(c))))

\* A line made of 1 to 6 markers, then whitespace, then at least one more
\* character on the same line.
IsHeadingLine(l) ==
    LET k == Run(l, 1, {"#"})
    IN  /\ k >= 1
        /\ k <= MaxMarkers
        /\ Len(l) >= k + 2
        /\ l[k + 1] \in Whitespace

\* The heading nodes the lines of a text call for, in order.
ExpectedHeadings(c) ==
    LET hs == SelectSeq(SplitLines(c), IsHeadingLine)
    IN  [i \in DOMAIN hs |->
            HeadingNode(Run(hs[i], 1, {"#"}),
                        Strip(SliceFrom(hs[i], Run(hs[i], 1, {"#"}))))]

HeadingNodes(ns) == SelectSeq(ns, LAMBDA n : n.type = "heading")
ContentNodes(ns) == SelectSeq(ns, LAMBDA n : n.type = "content")

\* The lines add_content appends for the rendering html at stack depth d.
Rendered(d, html) == [i \in 1..Len(html) |-> ContentLine(d + 1, html[i])]

\* C4: close_all emits one closing marker per container on the stack and
\* leaves the stack empty; in convert() it runs once every node has been
\* fed, and the builder does not change afterwards.
C4_CloseAllTerminal ==
    [][ /\ (pc = "build" /\ pc' = "closed") =>
            /\ pos > Len(nodes)
            /\ fed = nodes
            /\ builder'.lines
                   = builder.lines \o Repeat(CloseLine, Len(builder.stack))
            /\ builder'.stack = <<>>
        /\ (pc \in {"closed", "written"}) =>
            /\ builder' = builder
            /\ fed' = fed
    ]_vars

C4_Witness ==
    /\ pc = "written"
    /\ Len(nodes) >= 2
    /\ Len(builder.lines) >= 2
    /\ builder.lines[Len(builder.lines)] = CloseLine
    /\ builder.lines[Len(builder.lines) - 1] = CloseLine

\* C6: "# Title", "## A", text1, "## B", text2 with collapsible levels {2}:
\* one plain h1 line, two niveau2 blocks, the first closed before the
\* second opens, each holding its own rendered content, and an empty stack.
C6_ScenarioTwoBlocks ==
    ( /\ content = ScenarioDoc
      /\ config.collapsible_levels = {2}
      /\ pc \in {"closed", "written"} ) =>
        LET open == 2 \in config.open_by_default
            texts == ContentNodes(nodes)
        IN  /\ HeadingLevels(nodes) = <<1, 2, 2>>
            /\ Len(texts) = 2
            /\ Markup(builder.lines)
                  = <<"h", "details", "summary", "close",
                      "details", "summary", "close">>
            /\ \E h1 \in md_to_html(texts[1].text),
                  h2 \in md_to_html(texts[2].text) :
                  builder.lines
                     = << PlainLine(0, 1, <<"T", "i", "t", "l", "e">>),
                          DetailsLine(0, 2, open),
                          SummaryLine(0, 2, <<"A">>) >>
                       \o Rendered(1, h1)
                       \o << CloseLine,
                             DetailsLine(0, 2, open),
                             SummaryLine(0, 2, <<"B">>) >>
                       \o Rendered(1, h2)
                       \o << CloseLine >>
            /\ builder.stack = <<>>

C6_Witness ==
    /\ content = ScenarioDoc
    /\ config.collapsible_levels = {2}
    /\ pc = "closed"
    /\ Len(builder.lines) = 9
    /\ builder.lines[4].text = <<"<", "p", ">", "t", "e", "x", "t", "1">>
    /\ builder.lines[8].text = <<"<", "p", ">", "t", "e", "x", "t", "2">>

\* C8: for a text that begins with a delimiter line and has a later line
\* made solely of the delimiter, strip_frontmatter returns the text strictly
\* after the first such closing line, leading newlines trimmed.
C8_StripsToClosingLine ==
    (pc # "read" /\ WellFormedFrontmatter(content)) =>
        body = LStripNewlines(AfterClosingLine(content))

\* C9: strip_frontmatter returns its input unchanged when the text does not
\* begin with a delimiter line, or no later line is solely the delimiter.
C9_UnchangedWithoutFrontmatter ==
    (pc # "read" /\ ~WellFormedFrontmatter(content)) => body = content

\* C10: parse_sections emits a Heading node exactly for each line made of
\* 1 to 6 markers, whitespace and text on that same line, with the marker
\* count as level and the trimmed text; a line of 7 or more markers yields
\* no heading and ends up in a Content node.
C10_HeadingPerHeadingLine ==
    (pc \in {"build", "closed", "written"}) =>
        /\ HeadingNodes(nodes) = ExpectedHeadings(body)
        /\ \A i \in DOMAIN nodes :
              nodes[i].type = "heading" => nodes[i].level \in 1..MaxMarkers
        /\ \A l \in {SplitLines(body)[i] : i \in DOMAIN SplitLines(body)} :
              Run(l, 1, {"#"}) > MaxMarkers =>
                  \E i \in DOMAIN nodes :
                      /\ nodes[i].type = "content"
                      /\ \E j \in DOMAIN SplitLines(nodes[i].text) :
                            SplitLines(nodes[i].text)[j] = l

Parsed == pc \in {"build", "closed", "written", "viewing"}

\* A text without its whitespace characters.
Squash(s) == SelectSeq(s, LAMBDA c : c \notin Whitespace)

\* The text of a node, with the marker syntax put back for a heading.
NodeSource(n) ==
    IF n.type = "heading"
    THEN Repeat("#", n.level) \o <<" ">> \o n.text
    ELSE n.text

RECURSIVE Reconstruct(_)
Reconstruct(ns) ==
    IF ns = <<>> THEN <<>> ELSE NodeSource(Head(ns)) \o Reconstruct(Tail(ns))

\* The nodes ns[i..] account, in order, for the text s from index cur: a
\* Content node is the exact span up to the next heading match (or the end),
\* a Heading node is the next match, reached over whitespace only.
RECURSIVE Follows(_, _, _, _)
Follows(s, ns, i, cur) ==
    IF i > Len(ns)
    THEN /\ Strip(SubSeq(s, cur, Len(s))) = <<>>
         /\ \A p \in cur..Len(s) : ~MatchAt(s, p).ok
    ELSE IF ns[i].type = "content"
    THEN LET stop == cur + Len(ns[i].text)
         IN  /\ Strip(ns[i].text) # <<>>
             /\ SubSeq(s, cur, stop - 1) = ns[i].text
             /\ \A p \in cur..(stop - 1) : ~MatchAt(s, p).ok
             /\ (i = Len(ns) => stop = Len(s) + 1)
             /\ (i < Len(ns) =>
                    ns[i + 1].type = "heading" /\ MatchAt(s, stop).ok)
             /\ Follows(s, ns, i + 1, stop)
    ELSE \E p \in cur..Len(s) :
             /\ MatchAt(s, p).ok
             /\ \A q \in cur..(p - 1) : ~MatchAt(s, q).ok
             /\ Strip(SubSeq(s, cur, p - 1)) = <<>>
             /\ ns[i].level = MatchAt(s, p).level
             /\ Follows(s, ns, i + 1, MatchAt(s, p).end + 1)

C12_ContentSpansExact ==
    Parsed =>
        /\ Follows(body, nodes, 1, 1)
        /\ \A i \in DOMAIN nodes :
              nodes[i].type = "content" =>
                  /\ Strip(nodes[i].text) # <<>>
                  /\ (i + 1 \in DOMAIN nodes => nodes[i + 1].type = "heading")

C12_Witness ==
    /\ pc = "build"
    /\ Len(ContentNodes(nodes)) >= 2
    /\ \E i \in DOMAIN nodes :
          /\ nodes[i].type = "content"
          /\ nodes[i].text # Strip(nodes[i].text)

\* C17: each activation of the expand/collapse-all toggle closes every
\* container if at least one is open, and opens every container otherwise;
\* after it all containers are in the same state.
C17_ToggleAll ==
    [][ (pc = "viewing" /\ dom'.last = "all") =>
            /\ DOMAIN dom'.open = DOMAIN dom.open
            /\ (\E i \in DOMAIN dom.open : dom.open[i]) =>
                   \A i \in DOMAIN dom'.open : ~dom'.open[i]
            /\ (\A i \in DOMAIN dom.open : ~dom.open[i]) =>
                   \A i \in DOMAIN dom'.open : dom'.open[i]
            /\ \A i, j \in DOMAIN dom'.open : dom'.open[i] = dom'.open[j]
    ]_vars

C17_Witness ==
    /\ pc = "viewing"
    /\ dom.last = "all"
    /\ Len(dom.open) >= 2
    /\ \A i \in DOMAIN dom.open : dom.open[i]
    /\ \E i \in DOMAIN dom.open : ~DetailsOf(builder.lines)[i]

\* A step that consumes one content node.
ContentStep ==
    /\ Len(fed') = Len(fed) + 1
    /\ fed'[Len(fed')].type = "content"

\* C18: add_content leaves the stack alone; an empty rendering (always the
\* case for whitespace-only text) appends nothing; otherwise one line per
\* rendered line is appended in order, a non-blank one indented to stack
\* depth + 1, a blank one as the empty string; lines already in the buffer
\* are never modified or removed.
C18_AddContentFrame ==
    [][ /\ ContentStep =>
            LET text == fed'[Len(fed')].text
                new == Suffix(builder'.lines, Len(builder.lines))
            IN  /\ builder'.stack = builder.stack
                /\ (Strip(text) = <<>> => new = <<>>)
                /\ \E html \in md_to_html(text) :
                      /\ Len(new) = Len(html)
                      /\ \A i \in DOMAIN html :
                            IF Strip(html[i]) # <<>>
                            THEN /\ new[i].kind = "content"
                                 /\ new[i].pad = Len(builder.stack) + 1
                                 /\ new[i].text = html[i]
                            ELSE /\ new[i].kind = "content"
                                 /\ new[i].pad = 0
                                 /\ new[i].text = <<>>
        /\ Len(builder'.lines) >= Len(builder.lines)
        /\ Prefix(builder'.lines, Len(builder.lines)) = builder.lines
    ]_vars

C18_Witness ==
    /\ builder.stack # <<>>
    /\ Len(builder.lines) >= 6
    /\ \E i \in DOMAIN builder.lines :
          /\ i + 1 \in DOMAIN builder.lines
          /\ builder.lines[i].kind = "content"
          /\ builder.lines[i].pad = Len(builder.stack) + 1
          /\ builder.lines[i + 1].kind = "content"
          /\ builder.lines[i + 1].pad = 0
          /\ builder.lines[i + 1].text = <<>>
    /\ fed[Len(fed)].type = "content"

\* C19: a non-collapsible heading of level L first closes the open
\* containers of level >= L, so right after it every level on the stack is
\* below L, and its line is indented at the depth of the remaining stack.
C19_PlainHeadingResets ==
    [][ (HeadingStep
            /\ fed'[Len(fed')].level \notin builder.collapsible_levels) =>
            LET level == fed'[Len(fed')].level
                n == Cardinality({i \in DOMAIN builder.stack :
                                     builder.stack[i] >= level})
                last == builder'.lines[Len(builder'.lines)]
            IN  /\ \A i \in DOMAIN builder'.stack : builder'.stack[i] < level
                /\ Len(builder'.stack) = Len(builder.stack) - n
                /\ builder'.lines
                      = builder.lines \o Repeat(CloseLine, n) \o << last >>
                /\ last.kind = "h"
                /\ last.level = level
                /\ last.pad = Len(builder'.stack)
    ]_vars

C19_Witness ==
    /\ pc = "build"
    /\ Len(builder.lines) >= 2
    /\ builder.lines[Len(builder.lines)].kind = "h"
    /\ builder.lines[Len(builder.lines)].pad = 1
    /\ builder.lines[Len(builder.lines) - 1].kind = "close"

\* C20: the stack is strictly increasing from bottom to top and holds only
\* levels of the collapsible set, so its depth never exceeds the number of
\* collapsible levels.
C20_StackStrictlyIncreasing ==
    /\ \A i \in 1..(Len(builder.stack) - 1) :
          builder.stack[i] < builder.stack[i + 1]
    /\ \A i \in DOMAIN builder.stack :
          builder.stack[i] \in builder.collapsible_levels
    /\ Len(builder.stack) <= Cardinality(builder.collapsible_levels)

C20_Witness ==
    /\ Len(builder.stack) = 3
    /\ Cardinality(builder.collapsible_levels) = 3

\* ------------------------------------------------ properties: the batch run
Terminated == batch.pc \in {"crashed", "done", "indexed"}

IsMarkdown(f) == Lower(PathSuffix(f.name)) = DotMd

\* The inputs for which a page was written.
ConvertedInputs == {batch.outputs[k].src : k \in DOMAIN batch.outputs}

\* A base name with every hyphen and underscore turned into a space.
SpacedOut(stem, title) ==
    /\ Len(title) = Len(stem)
    /\ \A i \in DOMAIN stem :
          title[i] = IF stem[i] \in {"-", "_"} THEN " " ELSE stem[i]

\* C13: a file whose conversion fails (renderer or write failure) does not
\* keep the other inputs from being converted, and the run still reports
\* the count and exits with status 0.
C13_BatchSurvivesFailure ==
    (Terminated /\ batch.failed_at # "config") =>
        /\ batch.exit = 0
        /\ batch.reported = batch.converted
        /\ \A i \in DOMAIN batch.inputs :
              ( /\ IsMarkdown(batch.inputs[i])
                /\ batch.inputs[i].exists
                /\ batch.inputs[i].fault = "none" ) => i \in ConvertedInputs

\* C14: a missing input yields no output and no result; the loop skips it
\* without counting it and goes on, inputs that are not .md are skipped and
\* never counted, so the count is the number of existing .md inputs
\* converted.
C14_MissingFilesSkipped ==
    batch.pc \in {"loop", "crashed", "done", "indexed"} =>
        /\ batch.converted = Len(batch.outputs)
        /\ Cardinality(ConvertedInputs) = Len(batch.outputs)
        /\ \A i \in ConvertedInputs :
              IsMarkdown(batch.inputs[i]) /\ batch.inputs[i].exists
        /\ (batch.pc = "loop" /\ batch.failed_at = "none") =>
              \A i \in 1..(batch.i - 1) :
                  (IsMarkdown(batch.inputs[i]) /\ batch.inputs[i].exists)
                      => i \in ConvertedInputs
        /\ batch.pc \in {"done", "indexed"} =>
              /\ batch.i = Len(batch.inputs) + 1
              /\ batch.reported
                    = Cardinality({i \in DOMAIN batch.inputs :
                                     /\ IsMarkdown(batch.inputs[i])
                                     /\ batch.inputs[i].exists})

C14_Witness ==
    /\ batch.pc = "done"
    /\ batch.reported = 1
    /\ Len(batch.inputs) = 2
    /\ IsMarkdown(batch.inputs[1])
    /\ ~batch.inputs[1].exists
    /\ ConvertedInputs = {2}

\* C15: load_config never fails; a missing or invalid config file gives
\* exactly the defaults, and a valid one leaves every key it does not
\* specify at its default.
C15_LoadConfigRecovers ==
    batch.pc \notin {"none", "start"} =>
        /\ batch.failed_at # "config"
        /\ batch.cfgfile.kind # "valid" => batch.cfg = DEFAULT_CONFIG
        /\ \A k \in DOMAIN DEFAULT_CONFIG \ DOMAIN batch.cfgfile.data :
              batch.cfg[k] = DEFAULT_CONFIG[k]

\* C16: the title is the base name with every hyphen and every underscore
\* replaced by a space and nothing else changed, in convert and in the
\* index alike, and deriving again from a derived title changes nothing.
C16_TitleDerivation ==
    /\ \A k \in DOMAIN batch.outputs :
          /\ SpacedOut(PathStem(batch.inputs[batch.outputs[k].src].name),
                       batch.outputs[k].title)
          /\ derive_title(batch.outputs[k].title) = batch.outputs[k].title
    /\ \A k \in DOMAIN batch.index :
          /\ SpacedOut(PathStem(batch.index[k].href),
                       batch.index[k].display_name)
          /\ derive_title(batch.index[k].display_name)
                = batch.index[k].display_name

C16_Witness ==
    /\ batch.pc = "indexed"
    /\ Len(batch.index) = 2
    /\ \E k \in DOMAIN batch.outputs :
          batch.outputs[k].title
             = <<"m", "y", " ", "d", "o", "c", " ", "n", "a", "m", "e">>
    /\ \E k \in DOMAIN batch.index :
          batch.index[k].display_name = <<"a", " ", " ", "b">>

====
